---- MODULE Spec2Model ----
(***************************************************************************)
(* Model of the command-line tools of yayadrian/tools:                     *)
(*   Workflow-to-GPX/workflow_to_gpx.py       find_tracks, parse_time,     *)
(*                                            track_to_gpx, process_file   *)
(*   github-projects-sprints/create_sprints.py  main, create_iteration     *)
(*                                                                         *)
(* JSON values are records of one uniform shape, so that any two values    *)
(* can be compared:                                                        *)
(*   t     "null" | "bool" | "num" | "str" | "list" | "dict"               *)
(*   g, r  a number, g * 10^9 + r with 0 <= r < 10^9 (TLC's integers are   *)
(*         32 bits wide, the timestamps of the program are not); a bool    *)
(*         is g = 0, r = 0 or 1                                            *)
(*   s     the text of a string                                            *)
(*   keys  the keys of a mapping, in document order                        *)
(*   items the elements of a sequence, or the values of a mapping          *)
(***************************************************************************)
EXTENDS Integers, Sequences, FiniteSets, TLC

VARIABLES
  tpoint, tres, tpc,                      \* parse_time applied to one point
  fdoc, ftracks, fpc,                     \* find_tracks applied to one document
  data, tracks, idx, pti, seg, outputs, written, raised, gpc,  \* process_file
  src_is_file, files, fi, total_tracks, total_files, dest, printed, bpc,  \* main of workflow_to_gpx
  token, sprint_length, csv,              \* create_sprints: the arguments and the CSV file
  sprints, existing, existing_set, created, skipped, si,   \* main's locals
  field, field0, requests, log, exit_code, spc   \* the project's field, the calls, the output

tvars == <<tpoint, tres, tpc>>
fvars == <<fdoc, ftracks, fpc>>
gvars == <<data, tracks, idx, pti, seg, outputs, written, raised, gpc>>
bvars == <<src_is_file, files, fi, total_tracks, total_files, dest, printed, bpc>>
svars == <<token, sprint_length, csv, sprints, existing, existing_set, created, skipped,
           si, field, field0, requests, log, exit_code, spc>>
vars == <<tvars, fvars, gvars, bvars, svars>>

----------------------------------------------------------------------------
(* JSON values as json.load returns them *)

E9 == 1000 * 1000 * 1000

Null == [t |-> "null", g |-> 0, r |-> 0, s |-> "", keys |-> <<>>, items |-> <<>>]
Bool(b) == [t |-> "bool", g |-> 0, r |-> IF b THEN 1 ELSE 0, s |-> "", keys |-> <<>>, items |-> <<>>]
Num(g, r) == [t |-> "num", g |-> g, r |-> r, s |-> "", keys |-> <<>>, items |-> <<>>]
IntNum(i) == Num(i \div E9, i % E9)
Str(s) == [t |-> "str", g |-> 0, r |-> 0, s |-> s, keys |-> <<>>, items |-> <<>>]
List(items) == [t |-> "list", g |-> 0, r |-> 0, s |-> "", keys |-> <<>>, items |-> items]
Dict(keys, items) == [t |-> "dict", g |-> 0, r |-> 0, s |-> "", keys |-> keys, items |-> items]

\* k in point
HasKey(point, k) == \E i \in DOMAIN point.keys : point.keys[i] = k

\* point.get(k): the value under k, None when the key is absent
Get(point, k) ==
  IF HasKey(point, k)
  THEN point.items[CHOOSE i \in DOMAIN point.keys : point.keys[i] = k]
  ELSE Null

\* Python's truth value of a JSON value, as `or` and `if` test it
Truthy(v) ==
  CASE v.t = "null" -> FALSE
    [] v.t = "bool" -> v.r = 1
    [] v.t = "num"  -> ~(v.g = 0 /\ v.r = 0)
    [] v.t = "str"  -> v.s # ""
    [] OTHER        -> v.items # <<>>

\* a or b
Or(a, b) == IF Truthy(a) THEN a ELSE b

----------------------------------------------------------------------------
(* find_tracks *)

\* has_lat_lon with `or` between the two tests
has_lat_lon_either(point) ==
  \/ \E k \in {"lat", "latitude"} : HasKey(point, k)
  \/ \E k \in {"lon", "lng", "longitude"} : HasKey(point, k)

has_lat_lon(point) ==
  /\ \E k \in {"lat", "latitude"} : HasKey(point, k)
  /\ \E k \in {"lon", "lng", "longitude"} : HasKey(point, k)

\* obj and all(isinstance(p, dict) and has_lat_lon(p) for p in obj)
is_track(obj) ==
  /\ obj.items # <<>>
  /\ \A i \in DOMAIN obj.items : obj.items[i].t = "dict" /\ has_lat_lon(obj.items[i])

RECURSIVE find_tracks_descending(_), extend_descending(_, _)

\* find_tracks going on into the points of the tracks it finds
find_tracks_descending(obj) ==
  IF obj.t = "list"
  THEN (IF is_track(obj) THEN <<obj>> ELSE <<>>) \o extend_descending(obj.items, 1)
  ELSE IF obj.t = "dict" THEN extend_descending(obj.items, 1) ELSE <<>>

extend_descending(items, i) ==
  IF i > Len(items) THEN <<>>
  ELSE find_tracks_descending(items[i]) \o extend_descending(items, i + 1)

RECURSIVE find_tracks(_), extend_tracks(_, _)

find_tracks(obj) ==
  IF obj.t = "list"
  THEN IF is_track(obj) THEN <<obj>> ELSE extend_tracks(obj.items, 1)
  ELSE IF obj.t = "dict" THEN extend_tracks(obj.items, 1) ELSE <<>>

\* the loops `for item in obj: tracks.extend(find_tracks(item))`, from element i on
extend_tracks(items, i) ==
  IF i > Len(items) THEN <<>>
  ELSE find_tracks(items[i]) \o extend_tracks(items, i + 1)

----------------------------------------------------------------------------
(* parse_time.  An instant is whole seconds since the epoch, g * 10^9 + r,  *)
(* plus ms thousandths of a second; a call ends in an instant, in None, or  *)
(* in an exception that leaves parse_time.                                  *)

TNone == [kind |-> "none", g |-> 0, r |-> 0, ms |-> 0]
TRaise == [kind |-> "raise", g |-> 0, r |-> 0, ms |-> 0]
Instant(g, r, ms) == [kind |-> "instant", g |-> g, r |-> r, ms |-> ms]

\* candidates with ts moved to the front
candidates_ts_first ==
  << "ts", "time", "timestamp", "timestampMs", "timestamp_ms", "date",
     "datetime", "created_at", "createdAt", "recorded_at", "recordedAt" >>

candidates ==
  << "time", "timestamp", "timestampMs", "timestamp_ms", "ts", "date",
     "datetime", "created_at", "createdAt", "recorded_at", "recordedAt" >>

\* for k in candidates: if k in point and point[k] is not None: t = point[k]; break
select_time(point) ==
  LET present == {i \in DOMAIN candidates : Get(point, candidates[i]) # Null}
  IN IF present = {} THEN Null
     ELSE Get(point, candidates[CHOOSE i \in present : \A j \in present : i <= j])

\* a <= b for whole numbers <<g, r>>
PairLE(a, b) == a[1] < b[1] \/ (a[1] = b[1] /\ a[2] <= b[2])

\* the instants datetime holds: 0001-01-01T00:00:00Z .. 9999-12-31T23:59:59Z,
\* -62135596800 .. 253402300799 seconds
MinTimestamp == <<-63, 864403200>>
MaxTimestamp == <<253, 402300799>>

\* datetime.fromtimestamp(val, tz=timezone.utc): ValueError when the year is out of range
fromtimestamp(g, r, ms) ==
  IF PairLE(MinTimestamp, <<g, r>>) /\ PairLE(<<g, r>>, MaxTimestamp)
  THEN Instant(g, r, ms)
  ELSE TRaise

\* 1e12
MsThreshold == <<1000, 0>>

\* val = float(t); if val > 1e12: val /= 1000.0; return datetime.fromtimestamp(val, ...)
epoch_number(g, r) ==
  IF ~PairLE(<<g, r>>, MsThreshold)
  THEN LET sec == g * 1000000 + (r \div 1000)
       IN fromtimestamp(sec \div E9, sec % E9, r % 1000)
  ELSE fromtimestamp(g, r, 0)

\* unicodedata.normalize("NFKC", t).strip(), whitespace runs collapsed, am/pm uppercased
normalize(s) ==
  CASE s = "2024/01/02  11:04:05 pm" -> "2024/01/02 11:04:05 PM"
    [] s = " "                       -> ""
    [] OTHER                         -> s

\* re.fullmatch(r"[-+]?\d+(?:\.\d+)?", s)
is_number_text(s) ==
  s \in {"1700000000", "1700000000000", "500000000000", "-2000000000000", "10", "20", "0"}

\* float(s) of a text that is a number
float_of_text(s) ==
  CASE s = "1700000000"     -> <<1, 700000000>>
    [] s = "1700000000000"  -> <<1700, 0>>
    [] s = "500000000000"   -> <<500, 0>>
    [] s = "-2000000000000" -> <<-2000, 0>>
    [] s = "10"             -> <<0, 10>>
    [] s = "20"             -> <<0, 20>>
    [] OTHER                -> <<0, 0>>

\* s.replace("Z", "+00:00")
replace_z(s) ==
  CASE s = "2024-01-02T03:04:05Z" -> "2024-01-02T03:04:05+00:00"
    [] OTHER                      -> s

\* datetime.fromisoformat(s_iso), made UTC: ValueError is caught ("none" here, the
\* next strategy follows); astimezone's OverflowError is not
fromisoformat(s) ==
  CASE s = "2024-01-02T03:04:05+00:00" -> Instant(1, 704164645, 0)
    [] s = "2024-01-02 03:04:05"       -> Instant(1, 704164645, 0)
    [] s = "0001-01-01T00:00:00+05:00" -> TRaise
    [] OTHER                           -> TNone

\* the loop over explicit_formats: the first format datetime.strptime accepts, made UTC
strptime_formats(s) ==
  CASE s = "2024/01/02 11:04:05 PM"   -> Instant(1, 704236645, 0)
    [] s = "0001-01-01 00:00:00+0500" -> TRaise
    [] OTHER                          -> TNone

\* the branch isinstance(t, str)
parse_text(text) ==
  LET s == normalize(text)
      n == float_of_text(s)
      byNumber == IF is_number_text(s) THEN epoch_number(n[1], n[2]) ELSE TNone
      byIso == fromisoformat(replace_z(s))
  IN IF byNumber.kind = "instant" THEN byNumber      \* except Exception: pass
     ELSE IF byIso.kind # "none" THEN byIso
     ELSE strptime_formats(s)

\* the conversion of the selected value t
convert_time(t) ==
  CASE t.t = "null"            -> TNone
    [] t.t \in {"num", "bool"} -> epoch_number(t.g, t.r)   \* a bool is an int
    [] t.t = "str"             -> parse_text(t.s)
    [] OTHER                   -> TNone

parse_time(point) == convert_time(select_time(point))

----------------------------------------------------------------------------
(* SpecTime: parse_time applied to one point.  The points carry one or two  *)
(* of the timestamp aliases, in either document order.                      *)

TimeValues ==
  { Null, Bool(TRUE), Bool(FALSE),
    IntNum(0), IntNum(1), Num(1, 700000000), Num(1700, 0),
    Num(1000, 0), Num(1000, 1), Num(500, 0), Num(253, 402300799), Num(253, 402300800),
    Num(-1, E9 - 86400), Num(-1000, 0), Num(-1001, E9 - 1), Num(-2000, 0),
    Str("2024-01-02T03:04:05Z"), Str("2024-01-02 03:04:05"),
    Str("2024/01/02  11:04:05 pm"), Str("2024/01/02 11:04:05 PM"),
    Str("1700000000"), Str("1700000000000"), Str("500000000000"), Str("-2000000000000"),
    Str("not a time"), Str(""), Str(" "),
    Str("0001-01-01T00:00:00+05:00"), Str("0001-01-01 00:00:00+0500"),
    List(<<>>), List(<<IntNum(1)>>), Dict(<<>>, <<>>), Dict(<<"time">>, <<IntNum(1)>>) }

LaterValues == { Null, Num(1, 700000000), Str("not a time"), Bool(TRUE) }

TimeKeys == { candidates[i] : i \in DOMAIN candidates } \cup { "lat" }

\* a point of n = 0, 1 or 2 keys, the two keys in either document order
TimePoint(n, rev, k1, v1, k2, v2) ==
  CASE n = 0 -> Dict(<<>>, <<>>)
    [] n = 1 -> Dict(<<k1>>, <<v1>>)
    [] OTHER -> IF rev THEN Dict(<<k2, k1>>, <<v2, v1>>) ELSE Dict(<<k1, k2>>, <<v1, v2>>)

ParseTime ==
  /\ tpc = "start"
  /\ tres' = parse_time(tpoint)
  /\ tpc' = "done"
  /\ UNCHANGED <<tpoint, fvars, gvars, bvars, svars>>

----------------------------------------------------------------------------
(* SpecFind: find_tracks applied to one document *)

MaxListLen == 2

SeqsUpTo(S, n) == UNION { [1..k -> S] : k \in 0..n }

PLatLon == Dict(<<"lat", "lon">>, <<IntNum(10), IntNum(20)>>)
PAlias == Dict(<<"latitude", "lng">>, <<IntNum(11), IntNum(21)>>)
PLongitude == Dict(<<"name", "longitude", "lat">>, <<Str("lat"), IntNum(22), IntNum(12)>>)
PLatOnly == Dict(<<"lat">>, <<IntNum(10)>>)
PLonOnly == Dict(<<"lon", "lng">>, <<IntNum(20), IntNum(20)>>)
PNullCoords == Dict(<<"lat", "lon">>, <<Null, Null>>)
PNested == Dict(<<"lat", "lon", "path">>, <<IntNum(10), IntNum(20), List(<<PAlias>>)>>)
PLatOnlyNested == Dict(<<"lat", "path">>, <<IntNum(10), List(<<PAlias>>)>>)

FindElements ==
  { PLatLon, PAlias, PLongitude, PLatOnly, PLonOnly, PNullCoords, PNested, PLatOnlyNested,
    Dict(<<>>, <<>>), Null, IntNum(1), Str("lat") }

InnerLists == { List(q) : q \in SeqsUpTo(FindElements, MaxListLen) }

OuterElements ==
  { List(<<>>), List(<<PLatLon>>), List(<<PLatLon, PAlias>>), List(<<PLatLon, PLatOnly>>),
    List(<<IntNum(1)>>), List(<<PNested>>), PLatLon, PLatOnlyNested,
    Dict(<<"a">>, <<List(<<PAlias>>)>>), IntNum(1) }

FindDocs ==
  FindElements \cup InnerLists
  \cup { List(q) : q \in SeqsUpTo(OuterElements, MaxListLen) }
  \cup { Dict(<<"a", "b">>, <<x, y>>) : x \in OuterElements, y \in OuterElements }
  \cup { List(<<List(<<x, y>>)>>) : x \in OuterElements, y \in OuterElements }


FindTracks ==
  /\ fpc = "start"
  /\ ftracks' = find_tracks(fdoc)
  /\ fpc' = "done"
  /\ UNCHANGED <<fdoc, tvars, gvars, bvars, svars>>

----------------------------------------------------------------------------
(* track_to_gpx and process_file *)

FloatOk(g, r) == [ok |-> TRUE, g |-> g, r |-> r]
FloatError == [ok |-> FALSE, g |-> 0, r |-> 0]

\* the texts float() accepts
float_accepts(s) == s \in {"10", "20", "0", "1700000000"}

\* float(v): TypeError for None, a list or a dict, ValueError for a text that is no number
float_value(v) ==
  CASE v.t \in {"num", "bool"}         -> FloatOk(v.g, v.r)
    [] v.t = "str" /\ float_accepts(v.s) -> LET n == float_of_text(v.s) IN FloatOk(n[1], n[2])
    [] OTHER                           -> FloatError

TrkptError(why) ==
  [status |-> why, lat |-> <<0, 0>>, lon |-> <<0, 0>>, hasEle |-> FALSE, ele |-> <<0, 0>>,
   hasTime |-> FALSE, time |-> <<0, 0>>]

\* the body of `for pt in track`: the trkpt element of one point, or the exception
\* that leaves track_to_gpx
render_point(pt) ==
  LET lat == float_value(Or(Get(pt, "lat"), Get(pt, "latitude")))
      lon == float_value(Or(Or(Get(pt, "lon"), Get(pt, "lng")), Get(pt, "longitude")))
      ele_val == Or(Or(Or(Get(pt, "ele"), Get(pt, "elevation")), Get(pt, "alt")), Get(pt, "altitude"))
      ele == float_value(ele_val)
      t == parse_time(pt)
  IN IF ~lat.ok \/ ~lon.ok THEN TrkptError("coord")
     ELSE IF t.kind = "raise" THEN TrkptError("time")
     ELSE [status |-> "ok", lat |-> <<lat.g, lat.r>>, lon |-> <<lon.g, lon.r>>,
           hasEle |-> (ele_val # Null /\ ele.ok),
           ele |-> IF ele_val # Null /\ ele.ok THEN <<ele.g, ele.r>> ELSE <<0, 0>>,
           hasTime |-> (t.kind = "instant"),            \* if t: a datetime is always true
           time |-> <<t.g, t.r>>]                       \* replace(microsecond=0)

RECURSIVE first_time(_, _)
\* the loop of format_start_time, from point i on: the first parse_time that is not None
first_time(track, i) ==
  IF i > Len(track.items) THEN TNone
  ELSE IF parse_time(track.items[i]).kind = "instant" THEN parse_time(track.items[i])
  ELSE first_time(track, i + 1)

\* (date, time) of the file name; without a timestamp the date is today's and the time "000000"
format_start_time(track) == first_time(track, 1)

\* The points of the documents process_file is run on: coordinates under each alias
\* and of each type, the elevation aliases, and the timestamps.
WithCoords(keys, items) == Dict(<<"lat", "lon">> \o keys, <<IntNum(10), IntNum(20)>> \o items)

CoordPoints ==
  { PLatLon, PAlias, PLongitude,
    Dict(<<"lat", "lon">>, <<IntNum(0), IntNum(20)>>),
    Dict(<<"lat", "lon">>, <<IntNum(10), IntNum(0)>>),
    Dict(<<"lat", "latitude", "lon">>, <<IntNum(0), IntNum(11), IntNum(20)>>),
    Dict(<<"lat", "lon">>, <<Str("10"), Str("20")>>),
    Dict(<<"lat", "lon">>, <<Str("abc"), IntNum(20)>>),
    Dict(<<"lat", "lon">>, <<Bool(TRUE), IntNum(20)>>),
    PNullCoords }

ElePoints ==
  { WithCoords(<<"ele">>, <<v>>) :
      v \in {IntNum(0), IntNum(5), Str("abc"), Str("10"), Null, Bool(TRUE), List(<<IntNum(1)>>)} }
  \cup { WithCoords(<<"ele", "elevation">>, <<v, IntNum(7)>>) : v \in {IntNum(0), IntNum(5), Str("abc")} }
  \cup { WithCoords(<<"elevation", "altitude">>, <<v, IntNum(0)>>) : v \in {IntNum(0), Str("abc")} }
  \cup { WithCoords(<<"alt">>, <<IntNum(9)>>), WithCoords(<<"altitude">>, <<IntNum(0)>>),
         WithCoords(<<"altitude">>, <<Str("abc")>>) }

StampPoints ==
  { WithCoords(<<"time">>, <<v>>) :
      v \in { Num(1, 700000000), Num(1700, 0), Num(500, 0), Num(-2000, 0),
              Str("2024-01-02T03:04:05Z"), Str("not a time"), Str("0001-01-01T00:00:00+05:00"),
              Bool(TRUE), Bool(FALSE), List(<<IntNum(1)>>), Dict(<<"time">>, <<IntNum(1)>>) } }
  \cup { WithCoords(<<"time", "ts">>, <<Str("not a time"), Num(1, 700000000)>>) }

GpxPoints == CoordPoints \cup ElePoints \cup StampPoints

MaxTrackLen == 2

SampleTracks ==
  { List(<<PLatLon>>), List(<<PAlias, PLatLon>>),
    List(<<Dict(<<"lat", "lon">>, <<IntNum(0), IntNum(20)>>)>>),
    List(<<WithCoords(<<"time">>, <<Num(500, 0)>>)>>),
    List(<<WithCoords(<<"time">>, <<Str("not a time")>>), WithCoords(<<"time">>, <<Num(1700, 0)>>)>>),
    List(<<PLatOnly>>), List(<<>>), IntNum(1) }

GpxDocs ==
  { List(q) : q \in SeqsUpTo(GpxPoints, MaxTrackLen) }
  \cup { Dict(<<"a", "b">>, <<x, y>>) : x \in SampleTracks, y \in SampleTracks }
  \cup { List(<<x, Dict(<<"routes">>, <<List(<<y, x>>)>>)>>) : x \in SampleTracks, y \in SampleTracks }

\* a file that cannot be read, or whose text is not JSON
Unreadable == [t |-> "unreadable", g |-> 0, r |-> 0, s |-> "", keys |-> <<>>, items |-> <<>>]

\* process_file after an exception of open or json.load: the exception leaves it
after_load_error_raise == "raise"

\* process_file after an exception of open or json.load: "Skipping ..." and return 0
after_load_error == "return"

\* process_file up to its loop: data = json.load(f), and on an exception "Skipping ..."
\* and return 0; else tracks = find_tracks(data); written = 0
LoadAndFind ==
  /\ gpc = "load"
  /\ IF data = Unreadable
     THEN /\ IF after_load_error = "return"
             THEN /\ printed' = Append(printed, [what |-> "Skipping", file |-> fi])
                  /\ gpc' = "done" /\ UNCHANGED raised
             ELSE raised' = "load" /\ gpc' = "raised" /\ UNCHANGED printed
          /\ UNCHANGED <<tracks, idx, pti>>
     ELSE /\ tracks' = find_tracks(data)
          /\ idx' = 1 /\ pti' = 1 /\ gpc' = "render"
          /\ UNCHANGED <<raised, printed>>
  /\ UNCHANGED <<data, seg, outputs, written, tvars, fvars, svars,
                 src_is_file, files, fi, total_tracks, total_files, dest, bpc>>

\* track_to_gpx(track), one point of its loop: the trkpt is appended to the trkseg, or
\* the exception leaves track_to_gpx and process_file, which catch nothing here
RenderPoint ==
  /\ gpc = "render" /\ idx <= Len(tracks) /\ pti <= Len(tracks[idx].items)
  /\ LET p == render_point(tracks[idx].items[pti])
     IN IF p.status = "ok"
        THEN /\ seg' = Append(seg, [lat |-> p.lat, lon |-> p.lon, hasEle |-> p.hasEle, ele |-> p.ele,
                                    hasTime |-> p.hasTime, time |-> p.time])
             /\ pti' = pti + 1
             /\ UNCHANGED <<raised, gpc>>
        ELSE /\ raised' = p.status /\ gpc' = "raised"
             /\ UNCHANGED <<seg, pti>>
  /\ UNCHANGED <<data, tracks, idx, outputs, written, tvars, fvars, svars, bvars>>

\* the rest of the loop body of process_file for one track: the file name from idx and
\* format_start_time, tree.write, written += 1
WriteTrack ==
  /\ gpc = "render" /\ idx <= Len(tracks) /\ pti > Len(tracks[idx].items)
  /\ outputs' = Append(outputs, [track |-> idx, start |-> format_start_time(tracks[idx]), seg |-> seg])
  /\ written' = written + 1
  /\ idx' = idx + 1 /\ pti' = 1 /\ seg' = <<>>
  /\ UNCHANGED <<data, tracks, raised, gpc, tvars, fvars, svars, bvars>>

\* return written
ReturnWritten ==
  /\ gpc = "render" /\ idx > Len(tracks)
  /\ gpc' = "done"
  /\ UNCHANGED <<data, tracks, idx, pti, seg, outputs, written, raised, tvars, fvars, svars, bvars>>

\* main of workflow_to_gpx.py: src is one file, or a folder whose files os.walk lists; a
\* file is whether its name ends with .json, and what json.load gives for it.  dest
\* holds, for every call of process_file, the GPX files it wrote.

\* lines 235-236 and 244-247: process_file is called for the next .json file
StartFile ==
  /\ bpc = "walk" /\ fi <= Len(files) /\ files[fi].json
  /\ data' = files[fi].doc
  /\ tracks' = <<>> /\ idx' = 0 /\ pti' = 0 /\ seg' = <<>> /\ outputs' = <<>> /\ written' = 0
  /\ gpc' = "load" /\ bpc' = "file"
  /\ UNCHANGED <<raised, src_is_file, files, fi, total_tracks, total_files, dest, printed,
                 tvars, fvars, svars>>

\* lines 238-239 and 244: a name that does not end with .json
SkipName ==
  /\ bpc = "walk" /\ fi <= Len(files) /\ ~files[fi].json
  /\ printed' = (IF src_is_file THEN Append(printed, [what |-> "not JSON", file |-> fi])
                 ELSE printed)
  /\ fi' = fi + 1
  /\ UNCHANGED <<src_is_file, files, total_tracks, total_files, dest, bpc, gvars, tvars, fvars, svars>>

\* lines 236-237 and 247-248: process_file has returned
FinishFile ==
  /\ bpc = "file" /\ gpc = "done"
  /\ total_tracks' = total_tracks + written
  /\ total_files' = total_files + 1
  /\ dest' = Append(dest, [file |-> fi, written |-> outputs])
  /\ fi' = fi + 1 /\ bpc' = "walk" /\ gpc' = "idle"
  /\ UNCHANGED <<data, tracks, idx, pti, seg, outputs, written, raised, src_is_file, files,
                 printed, tvars, fvars, svars>>

\* an exception of process_file leaves main, which catches nothing
Crash ==
  /\ bpc = "file" /\ gpc = "raised"
  /\ dest' = Append(dest, [file |-> fi, written |-> outputs])
  /\ bpc' = "crashed" /\ gpc' = "idle"
  /\ UNCHANGED <<data, tracks, idx, pti, seg, outputs, written, raised, src_is_file, files, fi,
                 total_tracks, total_files, printed, tvars, fvars, svars>>

\* line 250
PrintTotals ==
  /\ bpc = "walk" /\ fi > Len(files)
  /\ printed' = Append(printed, [what |-> "Processed", file |-> total_files])
  /\ bpc' = "done"
  /\ UNCHANGED <<src_is_file, files, fi, total_tracks, total_files, dest, gvars, tvars, fvars, svars>>

\* The files of a run
MaxFiles == 3

JsonFile(doc) == [json |-> TRUE, doc |-> doc]

BatchFiles ==
  { JsonFile(Unreadable), JsonFile(List(<<PLatLon>>)), JsonFile(IntNum(1)),
    JsonFile(Dict(<<"a", "b">>, <<List(<<PAlias, PLatLon>>), List(<<PLatLon>>)>>)),
    JsonFile(List(<<Dict(<<"lat", "lon">>, <<IntNum(0), IntNum(20)>>)>>)),
    [json |-> FALSE, doc |-> Unreadable] }

----------------------------------------------------------------------------
(* create_sprints.py.  A CSV file is its header and its rows; a row is the   *)
(* text of its Sprint Name column and of its Sprint Start Date column, or    *)
(* short when it has no second column (csv.DictReader then gives None).      *)
(* An iteration of the project's field is id, title, startDate, duration;    *)
(* in the input of the update mutation a new iteration has no id.            *)

\* str.strip()
strip(s) ==
  CASE s = "  "         -> ""
    [] s = " Sprint 2 " -> "Sprint 2"
    [] OTHER            -> s

NoDate == <<0, 0, 0>>

\* datetime.strptime(start_date_str, "%Y-%m-%d").date(), NoDate for ValueError
strptime_date(s) ==
  CASE s = "2025-01-06" -> <<2025, 1, 6>>
    [] s = "2025-1-20"  -> <<2025, 1, 20>>
    [] s = "2025-01-20" -> <<2025, 1, 20>>
    [] OTHER            -> NoDate

\* start_date.strftime("%Y-%m-%d")
strftime_date(d) ==
  CASE d = <<2025, 1, 6>>  -> "2025-01-06"
    [] d = <<2025, 1, 20>> -> "2025-01-20"
    [] OTHER               -> ""

CsvFailure == [ok |-> FALSE, sprints |-> <<>>]

RECURSIVE parse_rows(_, _, _)
\* the loop over the rows of parse_csv, from row i on, with the sprints found so far
parse_rows(rows, i, found) ==
  IF i > Len(rows) THEN [ok |-> TRUE, sprints |-> found]
  ELSE IF rows[i].short THEN CsvFailure          \* None.strip(): AttributeError, line 51
  ELSE IF strip(rows[i].name) = "" THEN parse_rows(rows, i + 1, found)
  ELSE IF strptime_date(strip(rows[i].date)) = NoDate THEN CsvFailure
  ELSE parse_rows(rows, i + 1,
         Append(found, [name |-> strip(rows[i].name),
                        start_date |-> strptime_date(strip(rows[i].date))]))

\* parse_csv without the test of the headers
parse_csv_any_headers(file) ==
  IF ~file.found THEN CsvFailure ELSE parse_rows(file.rows, 1, <<>>)

\* parse_csv: every exception becomes FileNotFoundError or ValueError
parse_csv(file) ==
  IF ~file.found THEN CsvFailure
  ELSE IF ~({"Sprint Name", "Sprint Start Date"} \subseteq file.headers) THEN CsvFailure
  ELSE parse_rows(file.rows, 1, <<>>)

\* [iter["title"] for iter in iterations]
titles(iterations) == [n \in DOMAIN iterations |-> iterations[n].title]

\* create_iteration with the existing iterations left out of the input
iteration_inputs_new_only(existing_iters, name, start_date, duration) ==
  << [hasId |-> FALSE, id |-> 0, title |-> name, startDate |-> start_date, duration |-> duration] >>

\* create_iteration, lines 245-260: the existing iterations, then the new one without id
iteration_inputs(existing_iters, name, start_date, duration) ==
  [n \in DOMAIN existing_iters |->
     [hasId |-> TRUE, id |-> existing_iters[n].id, title |-> existing_iters[n].title,
      startDate |-> existing_iters[n].startDate, duration |-> existing_iters[n].duration]]
  \o << [hasId |-> FALSE, id |-> 0, title |-> name, startDate |-> start_date, duration |-> duration] >>

\* updateProjectV2Field on the server: the field's iterations become the input's, a new
\* iteration is given the next id
apply_update(inputs) ==
  [n \in DOMAIN inputs |->
     [id |-> IF inputs[n].hasId THEN inputs[n].id ELSE n, title |-> inputs[n].title,
      startDate |-> inputs[n].startDate, duration |-> inputs[n].duration]]

\* the skip test of main that never finds a name
name_exists_never(name, set) == FALSE

\* name in existing_set
name_exists(name, set) == name \in set

\* a failure of create_iteration that ends the run
after_failure_abort == "exit"

\* the except clause of the loop: print the failure, the loop goes on
after_failure == "loop"

\* main after create_iteration has returned, leaving existing_set as it is
mark_created_never(set, name) == set

\* existing_set.add(name)
mark_created(set, name) == set \cup {name}

\* a call of the GraphQL API: what was asked, for the sprint at which place of the CSV
\* (0 before the loop), the iterations the answer held or the input carried
Call(op, n, iterations) == [op |-> op, sprint |-> n, iterations |-> iterations]

Exit(code) ==
  /\ exit_code' = code
  /\ spc' = "exit"

\* main, lines 333-341
CheckArguments ==
  /\ spc = "args"
  /\ IF token = "" \/ sprint_length < 1 THEN Exit(1)
     ELSE spc' = "csv" /\ UNCHANGED exit_code
  /\ UNCHANGED <<token, sprint_length, csv, sprints, existing, existing_set, created, skipped,
                 si, field, field0, requests, log, tvars, fvars, gvars, bvars>>

\* main, lines 343-352
ParseCsv ==
  /\ spc = "csv"
  /\ LET parsed == parse_csv(csv)
     IN IF ~parsed.ok \/ parsed.sprints = <<>>
        THEN Exit(1) /\ UNCHANGED sprints
        ELSE sprints' = parsed.sprints /\ spc' = "project" /\ UNCHANGED exit_code
  /\ UNCHANGED <<token, sprint_length, csv, existing, existing_set, created, skipped,
                 si, field, field0, requests, log, tvars, fvars, gvars, bvars>>

\* get_project_info: the project and its iteration field are found, or an exception
\* ends main with exit 1: a project number that is no integer (before any request), an
\* HTTP error status, GraphQL errors, no project, no iteration field
GetProjectInfo ==
  /\ spc = "project"
  /\ \E answer \in {"found", "failed", "bad_number"} :
       /\ requests' = (IF answer = "bad_number" THEN requests
                       ELSE Append(requests, Call("project", 0, <<>>)))
       /\ IF answer = "found" THEN spc' = "existing" /\ UNCHANGED exit_code ELSE Exit(1)
  /\ UNCHANGED <<token, sprint_length, csv, sprints, existing, existing_set, created, skipped,
                 si, field, field0, log, tvars, fvars, gvars, bvars>>

\* get_existing_iterations and lines 369-374: the titles of the field, [] when the
\* answer holds errors, exit 1 on an HTTP error status
GetExistingIterations ==
  /\ spc = "existing"
  /\ \E answer \in {"data", "errors", "http"} :
       /\ requests' = Append(requests, Call("titles", 0, IF answer = "data" THEN field ELSE <<>>))
       /\ IF answer = "http"
          THEN Exit(1) /\ UNCHANGED <<existing, existing_set, created, skipped, si>>
          ELSE /\ existing' = (IF answer = "data" THEN titles(field) ELSE <<>>)
               /\ existing_set' = { existing'[n] : n \in DOMAIN existing' }
               /\ created' = 0 /\ skipped' = 0 /\ si' = 1
               /\ spc' = "loop" /\ UNCHANGED exit_code
  /\ UNCHANGED <<token, sprint_length, csv, sprints, field, field0, log, tvars, fvars, gvars, bvars>>

\* the loop body for a name in existing_set, lines 380-383
SkipSprint ==
  /\ spc = "loop" /\ si <= Len(sprints)
  /\ name_exists(sprints[si].name, existing_set)
  /\ log' = Append(log, [name |-> sprints[si].name, what |-> "skipped"])
  /\ skipped' = skipped + 1
  /\ si' = si + 1
  /\ UNCHANGED <<token, sprint_length, csv, sprints, existing, existing_set, created,
                 field, field0, requests, exit_code, spc, tvars, fvars, gvars, bvars>>

\* the loop body otherwise, lines 385-401, with create_iteration: the query for the
\* iterations, then the update mutation; either answer may be an HTTP error status or
\* hold errors, and an update that ends in an HTTP error may have been applied
CreateSprint ==
  /\ spc = "loop" /\ si <= Len(sprints)
  /\ ~name_exists(sprints[si].name, existing_set)
  /\ \E answer \in {"query_fails", "update_errors", "update_http", "update_http_applied", "ok"} :
       LET name == sprints[si].name
           inputs == iteration_inputs(field, name, strftime_date(sprints[si].start_date), sprint_length)
           query == Call("iterations", si, IF answer = "query_fails" THEN <<>> ELSE field)
       IN /\ requests' = (IF answer = "query_fails" THEN Append(requests, query)
                          ELSE requests \o <<query, Call("update", si, inputs)>>)
          /\ field' = (IF answer \in {"ok", "update_http_applied"} THEN apply_update(inputs) ELSE field)
          /\ IF answer = "ok"
             THEN /\ log' = Append(log, [name |-> name, what |-> "created"])
                  /\ created' = created + 1
                  /\ existing_set' = mark_created(existing_set, name)
                  /\ si' = si + 1
                  /\ UNCHANGED <<spc, exit_code>>
             ELSE /\ log' = Append(log, [name |-> name, what |-> "failed"])
                  /\ IF after_failure = "loop"
                     THEN si' = si + 1 /\ UNCHANGED <<spc, exit_code>>
                     ELSE Exit(1) /\ UNCHANGED si
                  /\ UNCHANGED <<created, existing_set>>
  /\ UNCHANGED <<token, sprint_length, csv, sprints, existing, skipped, field0, tvars, fvars, gvars, bvars>>

\* lines 403-404: the summary, and main returns
Summary ==
  /\ spc = "loop" /\ si > Len(sprints)
  /\ spc' = "done" /\ exit_code' = 0
  /\ UNCHANGED <<token, sprint_length, csv, sprints, existing, existing_set, created, skipped,
                 si, field, field0, requests, log, tvars, fvars, gvars, bvars>>

\* The runs: the arguments, the CSV file and the iterations the field holds
MaxRows == 3

Row(name, date) == [name |-> name, date |-> date, short |-> FALSE]

CsvRows ==
  { Row("Sprint 1", "2025-01-06"), Row(" Sprint 2 ", "2025-1-20"), Row("Sprint 1", "2025-01-20"),
    Row("Sprint 3", "2025-01-20"), Row("  ", "2025-01-06"), Row("Sprint 2", "06/01/2025"),
    [name |-> "", date |-> "", short |-> TRUE] }

Headers == { {"Sprint Name", "Sprint Start Date", "Notes"}, {"Sprint Name", "Start"} }

Iteration(id, title, startDate, duration) ==
  [id |-> id, title |-> title, startDate |-> startDate, duration |-> duration]

Fields ==
  { <<>>,
    << Iteration(1, "Sprint 1", "2025-01-06", 14) >>,
    << Iteration(1, "Sprint 0", "2024-12-23", 7), Iteration(2, "Sprint 2", "2025-01-20", 14) >> }

----------------------------------------------------------------------------
(* The specifications: each runs one program, the state of the others stays idle *)

InitTime ==
  /\ src_is_file = FALSE /\ files = <<>> /\ fi = 0 /\ total_tracks = 0 /\ total_files = 0
  /\ dest = <<>> /\ printed = <<>> /\ bpc = "idle"
  /\ \E n \in 0..2, rev \in BOOLEAN, k1 \in TimeKeys, k2 \in TimeKeys,
        v1 \in TimeValues, v2 \in LaterValues :
       /\ n = 2 => k1 # k2
       /\ tpoint = TimePoint(n, rev, k1, v1, k2, v2)
  /\ tres = TNone /\ tpc = "start"
  /\ fdoc = Null /\ ftracks = <<>> /\ fpc = "idle"
  /\ data = Null /\ tracks = <<>> /\ idx = 0 /\ pti = 0 /\ seg = <<>>
  /\ outputs = <<>> /\ written = 0 /\ raised = "none" /\ gpc = "idle"
  /\ token = "" /\ sprint_length = 0 /\ csv = [found |-> FALSE, headers |-> {}, rows |-> <<>>]
  /\ sprints = <<>> /\ existing = <<>> /\ existing_set = {} /\ created = 0 /\ skipped = 0
  /\ si = 0 /\ field = <<>> /\ field0 = <<>> /\ requests = <<>> /\ log = <<>>
  /\ exit_code = -1 /\ spc = "idle"

NextTime == ParseTime

SpecTime == InitTime /\ [][NextTime]_vars

InitFind ==
  /\ src_is_file = FALSE /\ files = <<>> /\ fi = 0 /\ total_tracks = 0 /\ total_files = 0
  /\ dest = <<>> /\ printed = <<>> /\ bpc = "idle"
  /\ fdoc \in FindDocs /\ ftracks = <<>> /\ fpc = "start"
  /\ tpoint = Null /\ tres = TNone /\ tpc = "idle"
  /\ data = Null /\ tracks = <<>> /\ idx = 0 /\ pti = 0 /\ seg = <<>>
  /\ outputs = <<>> /\ written = 0 /\ raised = "none" /\ gpc = "idle"
  /\ token = "" /\ sprint_length = 0 /\ csv = [found |-> FALSE, headers |-> {}, rows |-> <<>>]
  /\ sprints = <<>> /\ existing = <<>> /\ existing_set = {} /\ created = 0 /\ skipped = 0
  /\ si = 0 /\ field = <<>> /\ field0 = <<>> /\ requests = <<>> /\ log = <<>>
  /\ exit_code = -1 /\ spc = "idle"

NextFind == FindTracks

SpecFind == InitFind /\ [][NextFind]_vars

InitGpx ==
  /\ src_is_file = FALSE /\ files = <<>> /\ fi = 0 /\ total_tracks = 0 /\ total_files = 0
  /\ dest = <<>> /\ printed = <<>> /\ bpc = "idle"
  /\ data \in GpxDocs \cup {Unreadable}
  /\ tracks = <<>> /\ idx = 0 /\ pti = 0 /\ seg = <<>>
  /\ outputs = <<>> /\ written = 0 /\ raised = "none" /\ gpc = "load"
  /\ tpoint = Null /\ tres = TNone /\ tpc = "idle"
  /\ fdoc = Null /\ ftracks = <<>> /\ fpc = "idle"
  /\ token = "" /\ sprint_length = 0 /\ csv = [found |-> FALSE, headers |-> {}, rows |-> <<>>]
  /\ sprints = <<>> /\ existing = <<>> /\ existing_set = {} /\ created = 0 /\ skipped = 0
  /\ si = 0 /\ field = <<>> /\ field0 = <<>> /\ requests = <<>> /\ log = <<>>
  /\ exit_code = -1 /\ spc = "idle"

NextGpx == LoadAndFind \/ RenderPoint \/ WriteTrack \/ ReturnWritten

SpecGpx == InitGpx /\ [][NextGpx]_vars

InitBatch ==
  /\ src_is_file \in BOOLEAN
  /\ files \in SeqsUpTo(BatchFiles, MaxFiles)
  /\ src_is_file => Len(files) = 1
  /\ fi = 1 /\ total_tracks = 0 /\ total_files = 0
  /\ dest = <<>> /\ printed = <<>> /\ bpc = "walk"
  /\ data = Null /\ tracks = <<>> /\ idx = 0 /\ pti = 0 /\ seg = <<>>
  /\ outputs = <<>> /\ written = 0 /\ raised = "none" /\ gpc = "idle"
  /\ tpoint = Null /\ tres = TNone /\ tpc = "idle"
  /\ fdoc = Null /\ ftracks = <<>> /\ fpc = "idle"
  /\ token = "" /\ sprint_length = 0 /\ csv = [found |-> FALSE, headers |-> {}, rows |-> <<>>]
  /\ sprints = <<>> /\ existing = <<>> /\ existing_set = {} /\ created = 0 /\ skipped = 0
  /\ si = 0 /\ field = <<>> /\ field0 = <<>> /\ requests = <<>> /\ log = <<>>
  /\ exit_code = -1 /\ spc = "idle"

NextBatch ==
  \/ StartFile \/ SkipName \/ FinishFile \/ Crash \/ PrintTotals
  \/ LoadAndFind \/ RenderPoint \/ WriteTrack \/ ReturnWritten

SpecBatch == InitBatch /\ [][NextBatch]_vars

InitSprints ==
  /\ src_is_file = FALSE /\ files = <<>> /\ fi = 0 /\ total_tracks = 0 /\ total_files = 0
  /\ dest = <<>> /\ printed = <<>> /\ bpc = "idle"
  /\ token \in {"", "ghp_token"}
  /\ sprint_length \in {0, 14}
  /\ \E found \in BOOLEAN, headers \in Headers, rows \in SeqsUpTo(CsvRows, MaxRows) :
       csv = [found |-> found, headers |-> headers, rows |-> rows]
  /\ field \in Fields /\ field0 = field
  /\ sprints = <<>> /\ existing = <<>> /\ existing_set = {} /\ created = 0 /\ skipped = 0
  /\ si = 0 /\ requests = <<>> /\ log = <<>> /\ exit_code = -1 /\ spc = "args"
  /\ tpoint = Null /\ tres = TNone /\ tpc = "idle"
  /\ fdoc = Null /\ ftracks = <<>> /\ fpc = "idle"
  /\ data = Null /\ tracks = <<>> /\ idx = 0 /\ pti = 0 /\ seg = <<>>
  /\ outputs = <<>> /\ written = 0 /\ raised = "none" /\ gpc = "idle"

NextSprints ==
  \/ CheckArguments \/ ParseCsv \/ GetProjectInfo \/ GetExistingIterations
  \/ SkipSprint \/ CreateSprint \/ Summary

SpecSprints == InitSprints /\ [][NextSprints]_vars

----------------------------------------------------------------------------
(* The claims *)

Range(q) == { q[i] : i \in DOMAIN q }
KeySet(p) == { p.keys[i] : i \in DOMAIN p.keys }

\* a mapping with at least one latitude alias key and at least one longitude alias key
CoordinateMapping(p) ==
  /\ p.t = "dict"
  /\ KeySet(p) \cap {"lat", "latitude"} # {}
  /\ KeySet(p) \cap {"lon", "lng", "longitude"} # {}

\* a non-empty sequence of coordinate mappings
CoordinateSequence(n) ==
  /\ n.t = "list" /\ n.items # <<>>
  /\ \A i \in DOMAIN n.items : CoordinateMapping(n.items[i])

RECURSIVE ReachedLists(_)
\* the sequence nodes a depth-first traversal reaches when it does not descend into
\* coordinate sequences
ReachedLists(obj) ==
  CASE obj.t = "list" ->
         {obj} \cup (IF CoordinateSequence(obj) THEN {}
                     ELSE UNION { ReachedLists(obj.items[i]) : i \in DOMAIN obj.items })
    [] obj.t = "dict" -> UNION { ReachedLists(obj.items[i]) : i \in DOMAIN obj.items }
    [] OTHER -> {}

\* C1: every sequence node find_tracks reaches is returned as a Track if and only if it
\* is non-empty and each of its elements is a mapping with a latitude alias key and a
\* longitude alias key; an empty sequence, or one with an element lacking a coordinate
\* pair, is never returned.
C1_TrackIffCoordinateSequence ==
  fpc = "done" =>
    \A n \in ReachedLists(fdoc) : (n \in Range(ftracks)) <=> CoordinateSequence(n)

\* a document with a sequence that is returned and a sequence with coordinate points
\* and one point lacking the pair, which is not
C1_Witness ==
  /\ fpc = "done"
  /\ \E n \in ReachedLists(fdoc), m \in ReachedLists(fdoc) :
       /\ CoordinateSequence(n) /\ n \in Range(ftracks)
       /\ ~CoordinateSequence(m) /\ m \notin Range(ftracks)
       /\ \E i \in DOMAIN m.items : CoordinateMapping(m.items[i])
       /\ \E i \in DOMAIN m.items : m.items[i].t = "dict" /\ ~CoordinateMapping(m.items[i])

\* |v| > 1e12
AbsOver1e12(g, r) == ~PairLE(<<g, r>>, <<1000, 0>>) \/ ~PairLE(<<-1000, 0>>, <<g, r>>)

\* the instant the claim gives a number: epoch + v/1000 s when |v| > 1e12, else epoch + v s
ClaimedInstant(g, r) ==
  IF AbsOver1e12(g, r)
  THEN LET sec == g * 1000000 + (r \div 1000) IN Instant(sec \div E9, sec % E9, r % 1000)
  ELSE Instant(g, r, 0)

\* an instant between 0001-01-01 and 9999-12-31, which a datetime can hold
Representable(i) == PairLE(MinTimestamp, <<i.g, i.r>>) /\ PairLE(<<i.g, i.r>>, MaxTimestamp)

\* C2: for a point whose selected timestamp value is a number v, parse_time returns
\* epoch + v/1000 seconds when |v| > 1e12 (also for large negative v), and epoch + v
\* seconds otherwise (stated for the instants a datetime can hold).
C2_NumericEpoch ==
  LET t == select_time(tpoint)
  IN (tpc = "done" /\ t.t = "num" /\ Representable(ClaimedInstant(t.g, t.r)))
       => tres = ClaimedInstant(t.g, t.r)

\* the order of the aliases as the claim gives it
AliasOrder ==
  << "time", "timestamp", "timestampMs", "timestamp_ms", "ts", "date",
     "datetime", "created_at", "createdAt", "recorded_at", "recordedAt" >>

PresentAliases(point) == { i \in DOMAIN AliasOrder : Get(point, AliasOrder[i]) # Null }
FirstAlias(point) ==
  AliasOrder[CHOOSE i \in PresentAliases(point) : \A j \in PresentAliases(point) : i <= j]

\* C3: the result of parse_time depends only on the first alias, in the fixed order,
\* that is present with a non-null value: it is the result for the point reduced to
\* that alias, whatever the later aliases hold, and None when no alias is present.
C3_FirstAliasOnly ==
  tpc = "done" =>
    IF PresentAliases(tpoint) = {} THEN tres = TNone
    ELSE tres = parse_time(Dict(<<FirstAlias(tpoint)>>, <<Get(tpoint, FirstAlias(tpoint))>>))

\* time cannot be parsed, ts could: the result is None
C3_Witness ==
  /\ tpc = "done"
  /\ Get(tpoint, "time") = Str("not a time")
  /\ Get(tpoint, "ts") = Num(1, 700000000)
  /\ tres = TNone

\* every point rendered so far with its trkpt element
RenderedPairs ==
  UNION { { <<tracks[k].items[j], outputs[k].seg[j]>> : j \in DOMAIN outputs[k].seg } :
          k \in DOMAIN outputs }
  \cup (IF idx \in DOMAIN tracks
        THEN { <<tracks[idx].items[j], seg[j]>> : j \in DOMAIN seg }
        ELSE {})

\* C4: a selected timestamp value that is a boolean, a mapping or a sequence is treated
\* as absent: parse_time returns None and the point is rendered without a time element.
C4_OtherTypesAbsent ==
  \A pr \in RenderedPairs :
    select_time(pr[1]).t \in {"bool", "list", "dict"}
      => parse_time(pr[1]) = TNone /\ ~pr[2].hasTime

\* a selected value no strategy converts to an instant a datetime can hold
Unconvertible(t) ==
  CASE t.t = "num" -> ~Representable(ClaimedInstant(t.g, t.r))
    [] t.t = "str" -> parse_text(t.s).kind # "instant"
    [] OTHER       -> FALSE

\* C5: a timestamp no strategy converts is a soft failure: parse_time returns None
\* without raising, and track_to_gpx renders the point without a time element and
\* goes on to the following points.
C5_SoftFailure ==
  /\ (gpc = "raised" /\ raised = "time")
       => ~Unconvertible(select_time(tracks[idx].items[pti]))
  /\ \A pr \in RenderedPairs : Unconvertible(select_time(pr[1])) => ~pr[2].hasTime

\* the value of the first alias present
FirstOf(pt, aliases) ==
  LET present == { i \in DOMAIN aliases : HasKey(pt, aliases[i]) }
  IN IF present = {} THEN Null
     ELSE Get(pt, aliases[CHOOSE i \in present : \A j \in present : i <= j])

LatitudeOf(pt) == FirstOf(pt, <<"lat", "latitude">>)
LongitudeOf(pt) == FirstOf(pt, <<"lon", "lng", "longitude">>)

\* a number, or a text float() accepts
NumericParseable(v) == v.t = "num" \/ (v.t = "str" /\ float_accepts(v.s))

\* a Track whose points carry numeric-parseable coordinates (and whose timestamps do
\* not raise, which is C5's matter)
PlainTrack(track) ==
  \A i \in DOMAIN track.items :
    /\ NumericParseable(LatitudeOf(track.items[i]))
    /\ NumericParseable(LongitudeOf(track.items[i]))
    /\ parse_time(track.items[i]).kind # "raise"

\* C6: for a Track whose points carry numeric-parseable latitude and longitude (0
\* included), track_to_gpx produces one trkpt per point, in input order, with that
\* point's latitude and longitude, and process_file writes one document per Track.
C6_OneTrkptPerPoint ==
  /\ (gpc = "raised" /\ idx \in DOMAIN tracks) => ~PlainTrack(tracks[idx])
  /\ \A k \in DOMAIN outputs :
       PlainTrack(tracks[k]) =>
         /\ Len(outputs[k].seg) = Len(tracks[k].items)
         /\ \A j \in DOMAIN outputs[k].seg :
              /\ outputs[k].seg[j].lat = <<float_value(LatitudeOf(tracks[k].items[j])).g,
                                           float_value(LatitudeOf(tracks[k].items[j])).r>>
              /\ outputs[k].seg[j].lon = <<float_value(LongitudeOf(tracks[k].items[j])).g,
                                           float_value(LongitudeOf(tracks[k].items[j])).r>>
  /\ gpc = "done" => Len(outputs) = Len(tracks) /\ written = Len(tracks)

\* C7: a trkpt has an elevation element exactly when at least one of the aliases ele,
\* elevation, alt, altitude holds a numeric-parseable value (0 included, an earlier
\* alias that is not numeric-parseable notwithstanding).
C7_ElevationWhenAnyAlias ==
  \A pr \in RenderedPairs :
    pr[2].hasEle <=>
      \E k \in {"ele", "elevation", "alt", "altitude"} :
        HasKey(pr[1], k) /\ float_value(Get(pr[1], k)).ok

\* the calls made for the sprint at place k of the CSV
CallsFor(k) == { n \in DOMAIN requests : requests[n].sprint = k }

Logged(what) == { k \in DOMAIN log : log[k].what = what }

C9_FailureContinues ==
  /\ \A k \in DOMAIN log : log[k].name = sprints[k].name
  /\ \A k \in Logged("failed") : spc \in {"loop", "done"} /\ si > k
  /\ spc \in {"loop", "done"} =>
       /\ Len(log) = si - 1
       /\ created = Cardinality(Logged("created"))
       /\ skipped = Cardinality(Logged("skipped"))
  /\ spc = "done" =>
       /\ Len(log) = Len(sprints) /\ exit_code = 0
       /\ \A k \in DOMAIN log : log[k].what # "skipped" => CallsFor(k) # {}

\* a failure, then a sprint created
C9_Witness ==
  /\ spc = "done"
  /\ \E k \in DOMAIN log :
       /\ log[k].what = "failed"
       /\ k + 1 \in DOMAIN log /\ log[k + 1].what = "created"
       /\ created + skipped < Len(sprints)

\* C10: the input of every update mutation holds each iteration the query just before
\* it returned, with the same id, title, startDate and duration and in that order, and
\* then one new entry without id for the sprint; so the iterations the field held
\* before the run are all still there, unchanged.
C10_UpdatePreservesIterations ==
  /\ \A n \in DOMAIN requests :
       requests[n].op = "update" =>
         /\ n > 1 /\ requests[n - 1].op = "iterations"
         /\ requests[n - 1].sprint = requests[n].sprint
         /\ LET fetched == requests[n - 1].iterations
                sent == requests[n].iterations
                sprint == sprints[requests[n].sprint]
            IN /\ Len(sent) = Len(fetched) + 1
               /\ \A m \in DOMAIN fetched :
                    sent[m] = [hasId |-> TRUE, id |-> fetched[m].id, title |-> fetched[m].title,
                               startDate |-> fetched[m].startDate, duration |-> fetched[m].duration]
               /\ sent[Len(sent)] = [hasId |-> FALSE, id |-> 0, title |-> sprint.name,
                                     startDate |-> strftime_date(sprint.start_date),
                                     duration |-> sprint_length]
  /\ \A m \in DOMAIN field0 : m \in DOMAIN field /\ field[m] = field0[m]

\* a field with two iterations, and two sprints created after them
C10_Witness ==
  /\ spc = "done"
  /\ Len(field0) = 2 /\ Len(field) = 4
  /\ \E n \in DOMAIN requests : requests[n].op = "update" /\ Len(requests[n].iterations) = 4


\* The CSV file with its rows of blank Sprint Name left out
RequiredHeaders == {"Sprint Name", "Sprint Start Date"}
BlankName(row) == strip(row.name) = ""
NamedRow(row) == ~BlankName(row)
WithoutBlankRows(file) == [file EXCEPT !.rows = SelectSeq(file.rows, NamedRow)]
PastCsv == spc \notin {"idle", "args", "csv"} /\ token # "" /\ sprint_length >= 1

\* C11: for a CSV file with the required headers, rows of blank Sprint Name never make
\* the program fail: once main is past parse_csv, it has the sprints of the file without
\* those rows, and it has left with exit 1 at that point only if the file without those
\* rows is rejected or holds no sprint.
C11_BlankRowsSkipped ==
  (PastCsv /\ csv.found /\ RequiredHeaders \subseteq csv.headers) =>
    LET rest == parse_csv(WithoutBlankRows(csv))
    IN IF rest.ok /\ rest.sprints # <<>>
       THEN sprints = rest.sprints
       ELSE spc = "exit" /\ exit_code = 1 /\ sprints = <<>>

\* C12: with no token, a sprint length below 1 or a CSV file lacking a required header,
\* main never gets past its checks: it leaves with exit 1, no request has been sent, the
\* field is as it was and no sprint is created.
C12_HardFailuresBeforeAnyRequest ==
  /\ (spc # "idle" /\ (token = "" \/ sprint_length < 1)) =>
       (spc \in {"args", "exit"} /\ sprints = <<>>)
  /\ (spc # "idle" /\ (token = "" \/ sprint_length < 1 \/ ~(RequiredHeaders \subseteq csv.headers))) =>
       /\ spc \in {"args", "csv", "exit"}
       /\ spc = "exit" => exit_code = 1
       /\ requests = <<>> /\ field = field0 /\ created = 0 /\ log = <<>>

C12_Witness ==
  /\ token # "" /\ sprint_length >= 1 /\ csv.found /\ csv.rows # <<>>
  /\ ~(RequiredHeaders \subseteq csv.headers)
  /\ \A n \in DOMAIN csv.rows : ~csv.rows[n].short /\ strptime_date(strip(csv.rows[n].date)) # NoDate
                                /\ NamedRow(csv.rows[n])
  /\ spc = "exit" /\ exit_code = 1 /\ requests = <<>>


\* the calls of process_file made so far for the file at place i
CallsOf(i) == { k \in DOMAIN dest : dest[k].file = i }
RECURSIVE TracksIn(_)
TracksIn(n) == IF n = 0 THEN 0 ELSE TracksIn(n - 1) + Len(dest[n].written)

\* C13: in a run over a folder, a .json file that cannot be read or parsed is skipped with
\* a "Skipping" line, adds no track, and never ends the run: a run ends early only inside a
\* file that was read, and a run that ends has called process_file once for every .json
\* file, each readable one having all its tracks written.
C13_UnreadableFileSkipped ==
  (bpc # "idle" /\ ~src_is_file) =>
    /\ \A i \in DOMAIN files :
         (files[i].json /\ files[i].doc = Unreadable /\ i < fi) =>
           /\ \E k \in DOMAIN dest : CallsOf(i) = {k} /\ dest[k].written = <<>>
           /\ \E n \in DOMAIN printed : printed[n] = [what |-> "Skipping", file |-> i]
    /\ bpc = "crashed" => files[fi].doc # Unreadable
    /\ bpc \in {"walk", "done"} => total_tracks = TracksIn(Len(dest))
    /\ bpc = "done" =>
         \A i \in DOMAIN files :
           IF files[i].json
           THEN \E k \in DOMAIN dest :
                  /\ CallsOf(i) = {k}
                  /\ Len(dest[k].written) =
                       (IF files[i].doc = Unreadable THEN 0 ELSE Len(find_tracks(files[i].doc)))
           ELSE CallsOf(i) = {}

C13_Witness ==
  /\ ~src_is_file /\ bpc = "done" /\ Len(files) = 3
  /\ files[1].json /\ files[1].doc # Unreadable /\ find_tracks(files[1].doc) # <<>>
  /\ files[2].json /\ files[2].doc = Unreadable
  /\ files[3].json /\ files[3].doc # Unreadable /\ Len(find_tracks(files[3].doc)) = 2
  /\ Len(dest) = 3 /\ dest[2].written = <<>> /\ Len(dest[3].written) = 2
  /\ total_tracks = Len(dest[1].written) + 2 /\ total_files = 3


\* A place of a document is the path to it: the positions of the elements (of a sequence)
\* and of the values (of a mapping) passed on the way down.
RECURSIVE TrackPlaces(_), NodeAt(_, _), Before(_, _)

\* the places of the coordinate sequences that lie inside no other coordinate sequence
TrackPlaces(obj) ==
  IF CoordinateSequence(obj) THEN { <<>> }
  ELSE IF obj.t \in {"list", "dict"}
       THEN UNION { { <<i>> \o p : p \in TrackPlaces(obj.items[i]) } : i \in DOMAIN obj.items }
       ELSE {}

NodeAt(obj, p) == IF p = <<>> THEN obj ELSE NodeAt(obj.items[Head(p)], Tail(p))

\* document order of two places, neither inside the other
Before(p, q) ==
  /\ p # <<>> /\ q # <<>>
  /\ \/ Head(p) < Head(q)
     \/ Head(p) = Head(q) /\ Before(Tail(p), Tail(q))

\* C14: find_tracks returns one entry for every place of the document that holds a
\* coordinate sequence lying inside no other one, in document order, each entry being
\* the sequence at that place: nothing from inside a Track, nothing merged, and equal
\* content at two places gives two entries.
C14_TopmostTracksInDocumentOrder ==
  fpc = "done" =>
    LET places == TrackPlaces(fdoc)
    IN /\ Len(ftracks) = Cardinality(places)
       /\ \A p \in places :
            ftracks[1 + Cardinality({ q \in places : Before(q, p) })] = NodeAt(fdoc, p)

\* a document with the same Track at two places, whose points hold a nested coordinate
\* sequence
C14_Witness ==
  /\ fpc = "done" /\ Len(ftracks) = 2 /\ ftracks[1] = ftracks[2]
  /\ \E i \in DOMAIN ftracks[1].items :
       \E j \in DOMAIN ftracks[1].items[i].items : CoordinateSequence(ftracks[1].items[i].items[j])


\* the earlier places of the CSV with the name of the sprint at place k
EarlierSameName(k) == { j \in 1..(k - 1) : sprints[j].name = sprints[k].name }

\* C15: in one run create_iteration succeeds at most once for a name: after it has, each
\* later sprint of that name is skipped with no call made for it; a sprint whose name
\* the field did not hold and whose earlier attempts all failed is attempted again.
C15_NoNameCreatedTwice ==
  /\ \A j \in Logged("created"), k \in Logged("created") :
       sprints[j].name = sprints[k].name => j = k
  /\ \A k \in DOMAIN log :
       /\ (\E j \in EarlierSameName(k) : log[j].what = "created")
            => log[k].what = "skipped" /\ CallsFor(k) = {}
       /\ (sprints[k].name \notin Range(existing) /\ \A j \in EarlierSameName(k) : log[j].what = "failed")
            => log[k].what # "skipped" /\ CallsFor(k) # {}
  /\ spc \in {"loop", "done"} =>
       existing_set = Range(existing) \cup { sprints[k].name : k \in Logged("created") }

\* one name three times: its creation fails, then succeeds, then the name is skipped
C15_Witness ==
  /\ spc = "done" /\ Len(sprints) = 3
  /\ sprints[1].name = sprints[2].name /\ sprints[2].name = sprints[3].name
  /\ log[1].what = "failed" /\ log[2].what = "created" /\ log[3].what = "skipped"
  /\ CallsFor(2) # {} /\ CallsFor(3) = {}

====
